---- MODULE Spec2Model ----
(***************************************************************************)
(* Single-path simulator of the Pijar DSS Monte Carlo core:                *)
(* PathSimulator.simulate composed with BusinessModel, RiskEventManager    *)
(* and RegimeSwitchingModel.                                               *)
(*                                                                         *)
(* Floating-point multipliers, rates and probabilities are fixed-point     *)
(* integers in units of 1/Scale (1.0 is Scale); a product of two such      *)
(* values is Mul(a, b).  Money is an integer amount.  Every random draw of *)
(* the generator is a nondeterministic choice over the values the draw can *)
(* return, cut to the bounds below.                                        *)
(***************************************************************************)
EXTENDS Integers, Sequences, FiniteSets, TLC

\* ---- bounds of the model -------------------------------------------------
\* time_horizon H of the path
MaxHorizon == 3
\* leads entering the pipeline over one path
MaxLeads == 2
\* longest sampled sales cycle, in months
MaxCycle == 2
\* shock arrivals over one path
MaxShocks == 1

\* ---- fixed point ---------------------------------------------------------
Scale == 10000
Mul(a, b) == (a * b) \div Scale
Min(a, b) == IF a < b THEN a ELSE b
Max(a, b) == IF a > b THEN a ELSE b

\* sum(q) of a list of numbers
RECURSIVE SumSeq(_)
SumSeq(q) == IF q = << >> THEN 0 ELSE Head(q) + SumSeq(Tail(q))

\* dict.get(key, default) of a Python dict
Get(d, k, default) == IF k \in DOMAIN d THEN d[k] ELSE default
\* the empty dict {}
EmptyDict == [k \in {} |-> 0]
\* Optional[int]: None is the empty tuple, the integer n is <<n>>
None == << >>
Some(n) == <<n>>
\* the truth value of an Optional[int]: None and 0 are false
Truthy(x) == x # None /\ x[1] # 0

\* ---- inputs of PathSimulator.simulate and BusinessModel ------------------
time_horizon == MaxHorizon
\* the sampled (initial_capital, dev_duration, dev_burn) with the request's
\* bumn_ratio: no development phase; ruin in the first sales month; ruin in
\* the first development month; development then sales; development over the
\* whole horizon without burn; an initial capital of 0 with and without a
\* development phase; a burn above the capital
PathInputs ==
    { [initial_capital |-> 400, dev_duration |-> 0, dev_burn |-> 400, bumn_ratio |-> 0],
      [initial_capital |-> 100, dev_duration |-> 0, dev_burn |-> 400, bumn_ratio |-> 0],
      [initial_capital |-> 400, dev_duration |-> 1, dev_burn |-> 400, bumn_ratio |-> 0],
      [initial_capital |-> 600, dev_duration |-> 1, dev_burn |-> 400, bumn_ratio |-> 10000],
      [initial_capital |-> 400, dev_duration |-> time_horizon, dev_burn |-> 0, bumn_ratio |-> 0],
      [initial_capital |-> 0, dev_duration |-> 1, dev_burn |-> 400, bumn_ratio |-> 0],
      [initial_capital |-> 0, dev_duration |-> 0, dev_burn |-> 400, bumn_ratio |-> 0],
      [initial_capital |-> 300, dev_duration |-> 1, dev_burn |-> 400, bumn_ratio |-> 0] }
leads_per_month == 20000
win_rate_bumn == 6000
win_rate_open == 3000
annual_churn_rate == 2000
op_overhead == 100
cost_per_customer == 100
\* compute_avg_contract_value(): annual value, 12 * 600
avg_contract == 7200
\* values a contract value draw can return
ContractValues == {7200}
Channels == {"adoption", "churn", "revenue", "cost"}

\* ---- regimes -------------------------------------------------------------
NORMAL == "normal"
STRESS == "stress"
BOOM == "boom"
regime_order == <<NORMAL, STRESS, BOOM>>

\* RegimeParameters.to_dict() of DEFAULT_REGIMES[r]
RegimeToDict(r) ==
    CASE r = NORMAL ->
           [lead_multiplier |-> 10000, win_rate_multiplier |-> 10000,
            churn_multiplier |-> 10000, revenue_multiplier |-> 10000,
            cost_multiplier |-> 10000, risk_intensity_multiplier |-> 10000]
      [] r = STRESS ->
           [lead_multiplier |-> 7000, win_rate_multiplier |-> 8500,
            churn_multiplier |-> 13000, revenue_multiplier |-> 9500,
            cost_multiplier |-> 11000, risk_intensity_multiplier |-> 20000]
      [] r = BOOM ->
           [lead_multiplier |-> 14000, win_rate_multiplier |-> 11500,
            churn_multiplier |-> 8000, revenue_multiplier |-> 11000,
            cost_multiplier |-> 9500, risk_intensity_multiplier |-> 5000]

\* create_default(0.20, 0.10, persistence = 0.85): rows of the transition
\* matrix in units of 1/Scale, in regime_order
transition_matrix ==
    <<  <<8500, 1000, 500>>,
        <<1200, 8500, 300>>,
        <<1200, 300, 8500>>  >>

get_regime_index(r) == CHOOSE i \in 1..Len(regime_order) : regime_order[i] = r

\* the regimes rng.choice(len(probs), p = probs) can return
sample_next_regime(current) ==
    { regime_order[j] : j \in { i \in 1..Len(regime_order) :
          transition_matrix[get_regime_index(current)][i] > 0 } }

\* the counts rng.poisson(rate) can return, at most cap
PoissonDraws(rate, cap) == IF rate > 0 THEN 0..cap ELSE {0}

\* ---- risk event manager --------------------------------------------------
\* TriangularDistribution(v, v, v), the severity fixed to v
FixedSeverity(v) == [min_val |-> v, mode |-> v, max_val |-> v]

\* TriangularDistribution.sample: the mode when max - min < 1e-10, else a
\* value of [min, max], cut to its ends and the mode
TriangularSample(dist) ==
    IF dist.max_val - dist.min_val < 1 THEN {dist.mode}
    ELSE {dist.min_val, dist.mode, dist.max_val}

\* RiskEventConfig of one event on channel ch: severity 0.5 (the channel is
\* halved), active from the first month on
EventConfig(ch) ==
    [name |-> "event", intensity |-> 12000, impact_type |-> ch,
     severity_dist |-> FixedSeverity(5000),
     recovery_rate |-> 3000, start_month |-> 1, end_month |-> None]

\* the event with another severity, and with another activation window
WithSeverity(event, v) == [event EXCEPT !.severity_dist = FixedSeverity(v)]
WithWindow(event, first, last) == [event EXCEPT !.start_month = first, !.end_month = last]

OneMultipliers == [adoption |-> Scale, churn |-> Scale, revenue |-> Scale, cost |-> Scale]

RECURSIVE MultiplyShocks(_, _)
MultiplyShocks(shocks, multipliers) ==
    IF shocks = << >> THEN multipliers
    ELSE LET shock == Head(shocks)
             m == IF shock.impact_type \in DOMAIN multipliers
                  THEN [multipliers EXCEPT ![shock.impact_type] = Mul(@, shock.severity)]
                  ELSE multipliers
         IN MultiplyShocks(Tail(shocks), m)

\* RiskEventManager.get_multipliers
get_multipliers(shocks) == MultiplyShocks(shocks, OneMultipliers)

\* the event draws arrivals in this month
EventActive(event, m) ==
    /\ ~(m < event.start_month - 1)
    /\ ~(Truthy(event.end_month) /\ m > event.end_month[1] - 1)

\* the new shocks of one event: one ActiveShock per drawn severity
RECURSIVE ShocksOf(_, _, _)
ShocksOf(event, sevs, m) ==
    IF sevs = << >> THEN << >>
    ELSE << [event_name |-> event.name, impact_type |-> event.impact_type,
             severity |-> Head(sevs), recovery_rate |-> event.recovery_rate,
             start_month |-> m] >> \o ShocksOf(event, Tail(sevs), m)

\* new_shocks of check_for_arrivals: the events in order, draws[i] being the
\* severities drawn for event i
RECURSIVE NewShocks(_, _, _, _)
NewShocks(evs, draws, i, m) ==
    IF i > Len(evs) THEN << >>
    ELSE ShocksOf(evs[i], draws[i], m) \o NewShocks(evs, draws, i + 1, m)

\* sequences over S of length at most n
SeqUpTo(S, n) == UNION { [1..k -> S] : k \in 0..n }

RECURSIVE SumLen(_, _)
SumLen(draws, i) == IF i > Len(draws) THEN 0 ELSE Len(draws[i]) + SumLen(draws, i + 1)

\* the draws check_for_arrivals can make: none for an event outside its
\* window or with rate 0, else any Poisson count (at most cap in total)
ArrivalDraws(evs, m, regime_multiplier, cap) ==
    { d \in [1..Len(evs) ->
               SeqUpTo(UNION { TriangularSample(evs[i].severity_dist) : i \in 1..Len(evs) }, cap)] :
        /\ SumLen(d, 1) <= cap
        /\ \A i \in 1..Len(evs) :
             /\ Len(d[i]) \in PoissonDraws(
                    IF EventActive(evs[i], m)
                    THEN Mul(evs[i].intensity \div 12, regime_multiplier) ELSE 0, cap)
             /\ \A k \in 1..Len(d[i]) : d[i][k] \in TriangularSample(evs[i].severity_dist) }

\* the partial recovery adding 0.2 instead of 0.2 of the gap to 1.0
PartialRecoveryAbsolute(severity) == severity + (Scale * 2) \div 10
\* the partial recovery of process_recoveries: severity moves toward 1.0
PartialRecovery(severity) == severity + ((Scale - severity) * 2) \div 10

\* process_recoveries: recovered[i] is the outcome of rng.random() < recovery_rate
RECURSIVE Remaining(_, _, _)
Remaining(shocks, recovered, i) ==
    IF i > Len(shocks) THEN << >>
    ELSE IF recovered[i] THEN Remaining(shocks, recovered, i + 1)
    ELSE << [shocks[i] EXCEPT !.severity = PartialRecovery(@)] >>
            \o Remaining(shocks, recovered, i + 1)

\* the outcomes the recovery draws can have
RecoveryDraws(shocks) ==
    { r \in [1..Len(shocks) -> BOOLEAN] :
        \A i \in 1..Len(shocks) :
            /\ shocks[i].recovery_rate <= 0 => ~r[i]
            /\ shocks[i].recovery_rate >= Scale => r[i] }

\* ---- business model ------------------------------------------------------
\* what the generator returns for one lead of process_new_leads
LeadDraws(bumn_ratio, win_mult) ==
    { l \in [is_bumn : BOOLEAN, will_convert : BOOLEAN,
             contract_value : ContractValues, cycle : 1..MaxCycle] :
        LET base_win == IF l.is_bumn THEN win_rate_bumn ELSE win_rate_open
            effective_win == Min(Scale, Mul(base_win, win_mult))
        IN /\ bumn_ratio <= 0 => ~l.is_bumn
           /\ bumn_ratio >= Scale => l.is_bumn
           /\ effective_win <= 0 => ~l.will_convert
           /\ effective_win >= Scale => l.will_convert }

\* BusinessModel.process_new_leads: the deals appended to the pipeline; ident
\* is the identity of the PipelineDeal object
RECURSIVE NewDeals(_, _, _)
NewDeals(leads, m, first_id) ==
    IF leads = << >> THEN << >>
    ELSE << [ident |-> first_id, entry_month |-> m,
             close_month |-> m + Head(leads).cycle,
             will_convert |-> Head(leads).will_convert,
             contract_value |-> Head(leads).contract_value,
             is_bumn |-> Head(leads).is_bumn] >>
         \o NewDeals(Tail(leads), m, first_id + 1)

process_new_leads(pl, m, leads, first_id) == pl \o NewDeals(leads, m, first_id)

\* BusinessModel.process_pipeline_closings
IsClosing(d, m) == d.close_month <= m /\ d.will_convert
\* the removal filter with >= for >: a deal stays through its close month
StaysInPipelineThroughClose(d, m) == d.close_month >= m \/ ~d.will_convert
StaysInPipeline(d, m) == d.close_month > m \/ ~d.will_convert
closing_deals(pl, m) == SelectSeq(pl, LAMBDA d : IsClosing(d, m))
process_pipeline_closings(pl, m) == SelectSeq(pl, LAMBDA d : StaysInPipeline(d, m))

\* BusinessModel.apply_churn: the values rng.binomial(customers, p) can return
ChurnDraws(n_customers, churn_rate, mults) ==
    IF n_customers = 0 THEN {0}
    ELSE LET churn_mult == Get(mults, "churn_multiplier", Scale)
             effective_annual == Min(9900, Mul(churn_rate, churn_mult))
         IN IF effective_annual <= 0 THEN {0} ELSE 0..n_customers

\* BusinessModel.compute_revenue
compute_revenue(n_customers, avg_contract_value, mults) ==
    LET rev_mult == Get(mults, "revenue_multiplier", Scale)
        monthly_contract == avg_contract_value \div 12
    IN Mul(n_customers * monthly_contract, rev_mult)

\* BusinessModel.compute_costs
compute_costs(n_customers, is_dev_phase, burn, mults) ==
    LET cost_mult == Get(mults, "cost_multiplier", Scale)
    IN IF is_dev_phase THEN Mul(burn, cost_mult)
       ELSE Mul(op_overhead + n_customers * cost_per_customer, cost_mult)

\* BusinessState.update_drawdown
update_drawdown(st) ==
    LET peak == IF st.capital > st.peak_capital THEN st.capital ELSE st.peak_capital
        dd == IF peak > 0
              THEN Max(st.max_drawdown, ((peak - st.capital) * Scale) \div peak)
              ELSE st.max_drawdown
    IN [st EXCEPT !.peak_capital = peak, !.max_drawdown = dd]

\* ---- state of one path ---------------------------------------------------
VARIABLES
    initial_capital,      \* simulate(initial_capital)
    dev_duration,         \* simulate(dev_duration)
    dev_burn,             \* simulate(dev_burn)
    bumn_ratio,           \* simulate(bumn_ratio)
    regime_model,         \* TRUE iff the simulator has a regime model
    risk_manager,         \* TRUE iff the simulator has a risk manager
    events,               \* RiskEventManager.events
    active_shocks,        \* RiskEventManager.active_shocks
    state,                \* the BusinessState of the path
    pc,                   \* position of simulate in the month loop
    month,                \* the loop variable
    equity_curve, monthly_pnl, customer_series,
    regime_path, current_regime, months_in_stress,
    shock_timeline, total_shocks,
    regime_multipliers, risk_multipliers, combined_multipliers,
    effective_lead_rate, n_leads, effective_churn,
    revenue, costs, new_customers, churned,
    is_ruin,
    result,               \* the PathResult, None until simulate returns
    deal_log,             \* every PipelineDeal created, with the months it was counted as a customer
    \* -- SimulationEngine and the /simulate handler
    config_seed,          \* input.config.seed, an Optional[int]
    n_simulations,        \* input.config.n_simulations
    n_jobs,               \* SimulationEngine.n_jobs
    enable_risk_events,   \* input.config.enable_risk_events
    risk_events,          \* input.risk_events, the request's list
    input_specs,          \* the request's distribution specs, by parameter name
    risk_configs,         \* SimulationEngine.risk_configs
    epc,                  \* position of the handler
    base_seed,            \* run's local base_seed, None before it is computed
    seeds,                \* run's local list of sub-seeds
    results,              \* slot i: the PathResult of path i, None until it is back
    raised,               \* the exception the handler ended with, None without one
    meta_seed,            \* meta.seed of aggregate_results' SimulationResult
    response_seed,        \* meta.seed of the handler's SimulationResponse
    \* -- the analytics on the list of path results: None until invoked, then
    \* what the call returned or raised
    basic_result,         \* engine.aggregate_results(path_results, sim_time)
    risk_result,          \* RiskAnalyzer(path_results).analyze()
    sensitivity_result,   \* SensitivityAnalyzer(path_results).analyze()
    premortem_result,     \* PremortemAnalyzer(path_results, -20.0).analyze()
    \* -- an RNGManager and what its spawn_generators calls returned
    rng_manager,
    spawned,
    \* -- the tasks of a parallel run and the RiskEventManager objects they made
    tasks,
    managers

engine_vars == <<config_seed, n_simulations, n_jobs, enable_risk_events, risk_events,
                 input_specs, risk_configs, epc, base_seed, seeds, results, raised, meta_seed,
                 response_seed>>
analytics_vars == <<basic_result, risk_result, sensitivity_result, premortem_result>>
rng_vars == <<rng_manager, spawned>>
task_vars == <<tasks, managers>>
\* what no step of simulate assigns: its arguments, the simulator's members and
\* the engine around it
cfg_vars == <<initial_capital, dev_duration, dev_burn, bumn_ratio, regime_model, risk_manager,
              events, engine_vars, analytics_vars, rng_vars, task_vars>>
series_vars == <<equity_curve, monthly_pnl, customer_series>>
regime_vars == <<regime_path, current_regime, months_in_stress, regime_multipliers>>
risk_vars == <<active_shocks, shock_timeline, total_shocks, risk_multipliers>>
ops_vars == <<effective_lead_rate, n_leads, effective_churn, revenue, costs, new_customers,
              churned>>
vars == <<cfg_vars, series_vars, regime_vars, risk_vars, ops_vars, state, pc, month,
          combined_multipliers, is_ruin, result, deal_log>>

\* BusinessState(capital, customers = 0, peak_capital = capital)
NewBusinessState(cap) ==
    [capital |-> cap, customers |-> 0, pipeline |-> << >>,
     peak_capital |-> cap, max_drawdown |-> 0, breakeven_month |-> -1,
     monthly_revenues |-> << >>, monthly_costs |-> << >>, monthly_customers |-> << >>,
     monthly_new_customers |-> << >>, monthly_churned |-> << >>]

\* DistributionSpec(type = FIXED, params = {value: val}): built as the
\* degenerate TriangularDistribution(val, val, val)
FixedValue(val) == [min_val |-> val, mode |-> val, max_val |-> val]

\* distribution specs every constructor accepts: contract_small fixed to the
\* contract value, leads_per_month fixed to the lead rate
ValidSpecs ==
    [contract_small |-> FixedValue(avg_contract), leads_per_month |-> FixedValue(leads_per_month)]

\* no request is being handled
EngineIdle ==
    /\ config_seed = None
    /\ n_simulations = 0
    /\ n_jobs = 1
    /\ enable_risk_events = FALSE
    /\ risk_events = << >>
    /\ input_specs = ValidSpecs
    /\ risk_configs = << >>
    /\ epc = "idle"
    /\ base_seed = None
    /\ seeds = << >>
    /\ results = << >>
    /\ raised = None
    /\ meta_seed = None
    /\ response_seed = None

\* no analytics call was made
NotAnalysed ==
    /\ basic_result = None
    /\ risk_result = None
    /\ sensitivity_result = None
    /\ premortem_result = None

\* no RNGManager exists
NoManager ==
    /\ rng_manager = None
    /\ spawned = << >>

\* no task of a parallel run exists
NoTasks ==
    /\ tasks = << >>
    /\ managers = << >>

\* simulate(inp) up to the head of the month loop, in a simulator with or
\* without a regime model whose risk manager, if evs is not empty, holds evs
SimulateEntry(inp, has_regime, evs) ==
    /\ initial_capital = inp.initial_capital
    /\ dev_duration = inp.dev_duration
    /\ dev_burn = inp.dev_burn
    /\ bumn_ratio = inp.bumn_ratio
    /\ regime_model = has_regime
    /\ risk_manager = (evs # << >>)
    /\ events = evs
    /\ active_shocks = << >>
    /\ state = NewBusinessState(initial_capital)
    /\ equity_curve = [k \in 0..time_horizon |-> IF k = 0 THEN initial_capital ELSE 0]
    /\ monthly_pnl = [k \in 0..(time_horizon - 1) |-> 0]
    /\ customer_series = [k \in 0..time_horizon |-> 0]
    /\ regime_path = << >>
    /\ current_regime = NORMAL
    /\ months_in_stress = 0
    /\ shock_timeline = << >>
    /\ total_shocks = 0
    /\ regime_multipliers = EmptyDict
    /\ risk_multipliers = OneMultipliers
    /\ combined_multipliers = EmptyDict
    /\ effective_lead_rate = 0
    /\ n_leads = None
    /\ effective_churn = 0
    /\ revenue = 0
    /\ costs = 0
    /\ new_customers = 0
    /\ churned = 0
    /\ is_ruin = FALSE
    /\ result = None
    /\ deal_log = << >>
    /\ month = 0
    /\ pc = IF time_horizon > 0 THEN "regime" ELSE "return"

\* the event lists a risk manager is built with (none: no risk manager): one
\* event per channel; an event amplifying costs; an event of severity 1.0; a
\* revenue event from month 2 on, up to month 2, and with end_month 0
EventLists ==
    { << >> }
    \cup { <<EventConfig(ch)>> : ch \in Channels }
    \cup { <<WithSeverity(EventConfig("cost"), 15000)>>,
           <<WithSeverity(EventConfig("revenue"), Scale)>> }
    \cup { <<WithWindow(EventConfig("revenue"), w[1], w[2])>> :
               w \in { <<2, None>>, <<1, Some(2)>>, <<1, Some(0)>> } }

\* one path is simulated, outside any request
Init ==
    /\ EngineIdle
    /\ NotAnalysed
    /\ NoManager
    /\ NoTasks
    /\ \E inp \in PathInputs, has_regime \in BOOLEAN, evs \in EventLists :
         SimulateEntry(inp, has_regime, evs)

\* the counter with every regime other than normal counted
stress_months_not_normal(count, has_model, r) ==
    IF has_model /\ r # NORMAL THEN count + 1 ELSE count
\* months_in_stress after the regime r of the month was sampled
stress_months(count, has_model, r) ==
    IF has_model /\ r = STRESS THEN count + 1 ELSE count

\* step 1 of the loop body: sample the regime of the month
SampleRegime ==
    /\ pc = "regime"
    /\ \E r \in (IF regime_model THEN sample_next_regime(current_regime) ELSE {current_regime}) :
         /\ current_regime' = r
         /\ regime_multipliers' = IF regime_model THEN RegimeToDict(r) ELSE EmptyDict
         /\ months_in_stress' = stress_months(months_in_stress, regime_model, r)
         /\ regime_path' = Append(regime_path, IF regime_model THEN r ELSE "normal")
    /\ risk_multipliers' = OneMultipliers
    /\ pc' = IF risk_manager THEN "arrivals" ELSE "combine"
    /\ UNCHANGED <<cfg_vars, series_vars, active_shocks, shock_timeline, total_shocks,
                   ops_vars, state, month, combined_multipliers, is_ruin, result, deal_log>>

\* step 2, first half: risk_manager.check_for_arrivals and the timeline
CheckForArrivals ==
    /\ pc = "arrivals"
    /\ LET risk_intensity_mult == Get(regime_multipliers, "risk_intensity_multiplier", Scale)
       IN \E d \in ArrivalDraws(events, month, risk_intensity_mult, MaxShocks - total_shocks) :
            LET new_shocks == NewShocks(events, d, 1, month)
            IN /\ active_shocks' = active_shocks \o new_shocks
               /\ shock_timeline' = shock_timeline \o
                     [i \in 1..Len(new_shocks) |->
                         <<month, new_shocks[i].impact_type, new_shocks[i].severity>>]
               /\ total_shocks' = total_shocks + Len(new_shocks)
    /\ pc' = "recoveries"
    /\ UNCHANGED <<cfg_vars, series_vars, regime_vars, risk_multipliers, ops_vars, state,
                   month, combined_multipliers, is_ruin, result, deal_log>>

\* step 2, second half: process_recoveries, then get_multipliers
ProcessRecoveries ==
    /\ pc = "recoveries"
    /\ \E r \in RecoveryDraws(active_shocks) :
         /\ active_shocks' = Remaining(active_shocks, r, 1)
         /\ risk_multipliers' = get_multipliers(active_shocks')
    /\ pc' = "combine"
    /\ UNCHANGED <<cfg_vars, series_vars, regime_vars, shock_timeline, total_shocks, ops_vars,
                   state, month, combined_multipliers, is_ruin, result, deal_log>>

\* the combined_multipliers dict of step 3
CombinedMultipliers(regime_mults, risk_mults) ==
    [k \in Channels \cup {"win_rate_multiplier"} |->
        IF k = "win_rate_multiplier"
        THEN Get(regime_mults, "win_rate_multiplier", Scale)
        ELSE Mul(Get(regime_mults, k \o "_multiplier", Scale), Get(risk_mults, k, Scale))]

\* step 3: combine regime and risk multipliers
Combine ==
    /\ pc = "combine"
    /\ combined_multipliers' = CombinedMultipliers(regime_multipliers, risk_multipliers)
    /\ pc' = "ops"
    /\ UNCHANGED <<cfg_vars, series_vars, regime_vars, risk_vars, ops_vars, state, month,
                   is_ruin, result, deal_log>>

\* the phase test one month short: sales start in the last development month
is_dev_phase_one_short(m, dev) == m < dev - 1
\* step 4: is_dev_phase
is_dev_phase(m, dev) == m < dev

\* step 5, development branch: no revenue, only burn
DevOps ==
    /\ pc = "ops"
    /\ is_dev_phase(month, dev_duration)
    /\ revenue' = 0
    /\ costs' = compute_costs(state.customers, TRUE, dev_burn, combined_multipliers)
    /\ new_customers' = 0
    /\ churned' = 0
    /\ pc' = "update"
    /\ UNCHANGED <<cfg_vars, series_vars, regime_vars, risk_vars, effective_lead_rate,
                   n_leads, effective_churn, state, month, combined_multipliers, is_ruin, result,
                   deal_log>>

\* deal_log after the deals of closing were counted as customers in month m
RECURSIVE LogCounted(_, _, _)
LogCounted(log, closing, m) ==
    IF closing = << >> THEN log
    ELSE LogCounted([log EXCEPT ![Head(closing).ident].counted = Append(@, m)],
                    Tail(closing), m)

\* step 5, sales branch: leads, pipeline, closings, churn, revenue and costs
SalesOps ==
    /\ pc = "ops"
    /\ ~is_dev_phase(month, dev_duration)
    /\ LET rate == Mul(leads_per_month, Get(combined_multipliers, "adoption", Scale))
           win_mult == Get(combined_multipliers, "win_rate_multiplier", Scale)
           churn_rate == Mul(annual_churn_rate, Get(combined_multipliers, "churn", Scale))
       IN /\ effective_lead_rate' = rate
          /\ effective_churn' = churn_rate
          /\ \E n \in PoissonDraws(Max(0, rate), MaxLeads - Len(deal_log)) :
             \E leads \in [1..n -> LeadDraws(bumn_ratio, win_mult)] :
               LET first_id == Len(deal_log) + 1
                   entered == process_new_leads(state.pipeline, month, leads, first_id)
                   closing == closing_deals(entered, month)
                   won == Len(closing)
                   log == deal_log \o [i \in 1..n |->
                              [deal |-> entered[Len(state.pipeline) + i], counted |-> << >>]]
               IN \E lost \in ChurnDraws(state.customers + won, churn_rate, EmptyDict) :
                    LET remaining == Max(0, state.customers + won - lost)
                    IN /\ n_leads' = Some(n)
                       /\ state' = [state EXCEPT
                                      !.pipeline = process_pipeline_closings(entered, month),
                                      !.customers = remaining]
                       /\ new_customers' = won
                       /\ churned' = lost
                       /\ revenue' = compute_revenue(remaining, avg_contract, combined_multipliers)
                       /\ costs' = compute_costs(remaining, FALSE, 0, combined_multipliers)
                       /\ deal_log' = LogCounted(log, closing, month)
    /\ pc' = "update"
    /\ UNCHANGED <<cfg_vars, series_vars, regime_vars, risk_vars, month, combined_multipliers,
                   is_ruin, result>>

\* the breakeven test without the development-phase condition
BreakevenAnyPhase(st, m, init_cap, in_dev) ==
    IF st.breakeven_month = -1 /\ st.capital >= init_cap
    THEN m + 1 ELSE st.breakeven_month

\* step 7: the breakeven month after the capital update of month m
Breakeven(st, m, init_cap, in_dev) ==
    IF st.breakeven_month = -1 /\ st.capital >= init_cap /\ ~in_dev
    THEN m + 1 ELSE st.breakeven_month

\* the ruin test with < for <=: a capital of exactly 0 is not ruin
RuinedBelowZero(cap) == cap < 0
\* step 8: the ruin test
Ruined(cap) == cap <= 0

\* the fill with the flow of the month of ruin repeated
padded_pnl_repeat(net_flow) == net_flow
\* monthly_pnl[future_month] of the months after ruin
padded_pnl(net_flow) == 0

\* steps 6 to 8: capital, drawdown, breakeven, the series, the ruin check
Update ==
    /\ pc = "update"
    /\ LET net_flow == revenue - costs
           st1 == update_drawdown([state EXCEPT !.capital = @ + net_flow])
           st2 == [st1 EXCEPT !.breakeven_month =
                      Breakeven(st1, month, initial_capital, is_dev_phase(month, dev_duration))]
           ruined == Ruined(st2.capital)
       IN /\ state' = [st2 EXCEPT
                         !.monthly_revenues = Append(@, revenue),
                         !.monthly_costs = Append(@, costs),
                         !.monthly_customers = Append(@, st2.customers),
                         !.monthly_new_customers = Append(@, new_customers),
                         !.monthly_churned = Append(@, churned)]
          /\ monthly_pnl' = [k \in DOMAIN monthly_pnl |->
                IF k = month THEN net_flow
                ELSE IF ruined /\ k \in (month + 1)..(time_horizon - 1) THEN padded_pnl(net_flow)
                ELSE monthly_pnl[k]]
          /\ equity_curve' = [k \in DOMAIN equity_curve |->
                IF k = month + 1 THEN st2.capital
                ELSE IF ruined /\ k \in (month + 2)..time_horizon THEN st2.capital
                ELSE equity_curve[k]]
          /\ customer_series' = [k \in DOMAIN customer_series |->
                IF k = month + 1 THEN st2.customers
                ELSE IF ruined /\ k \in (month + 2)..time_horizon THEN 0
                ELSE customer_series[k]]
          /\ is_ruin' = ruined
          /\ IF ruined \/ month + 1 >= time_horizon
             THEN pc' = "return" /\ month' = month
             ELSE pc' = "regime" /\ month' = month + 1
    /\ UNCHANGED <<cfg_vars, regime_vars, risk_vars, ops_vars, combined_multipliers, result,
                   deal_log>>

\* the non-finite values of a numpy float
NegInf == "-inf"
PosInf == "inf"
NaN == "nan"

\* state.capital is a numpy float once a sales month has added its revenue
\* (customers times the numpy float avg_contract / 12); through the
\* development months it is the Python float simulate was called with
capital_is_numpy == Len(state.monthly_revenues) > dev_duration

\* the division by initial_capital raises ZeroDivisionError: both operands
\* are Python floats and the divisor is 0.0
total_return_raises == initial_capital = 0 /\ ~capital_is_numpy

\* (final_capital - initial_capital) / initial_capital * 100, in whole
\* percent, rounded down; a numpy float divided by 0.0 is nan or an infinity
total_return(final_capital, init_cap) ==
    IF init_cap # 0 THEN ((final_capital - init_cap) * 100) \div init_cap
    ELSE IF final_capital - init_cap = 0 THEN NaN
    ELSE IF final_capital - init_cap < 0 THEN NegInf
    ELSE PosInf

\* the final metrics: an exception leaves simulate without a PathResult
ReturnRaises ==
    /\ pc = "return"
    /\ total_return_raises
    /\ pc' = "raised"
    /\ UNCHANGED <<cfg_vars, series_vars, regime_vars, risk_vars, ops_vars, state, month,
                   combined_multipliers, is_ruin, result, deal_log>>

\* the final metrics and the PathResult
Return ==
    /\ pc = "return"
    /\ ~total_return_raises
    /\ result' = Some(
          [initial_capital |-> initial_capital,
           final_capital |-> state.capital,
           total_return |-> total_return(state.capital, initial_capital),
           max_drawdown |-> state.max_drawdown * 100,
           breakeven_month |-> state.breakeven_month,
           is_ruin |-> is_ruin,
           equity_curve |-> equity_curve,
           monthly_pnl |-> monthly_pnl,
           customer_series |-> customer_series,
           regime_path |-> regime_path,
           months_in_stress |-> months_in_stress,
           total_shocks |-> total_shocks,
           shock_timeline |-> shock_timeline,
           realized_params |->
              [initial_capital |-> initial_capital, dev_duration |-> dev_duration,
               dev_burn |-> dev_burn, leads_per_month |-> leads_per_month,
               win_rate_bumn |-> win_rate_bumn, win_rate_open |-> win_rate_open,
               annual_churn_rate |-> annual_churn_rate]])
    /\ pc' = "done"
    /\ UNCHANGED <<cfg_vars, series_vars, regime_vars, risk_vars, ops_vars, state, month,
                   combined_multipliers, is_ruin, deal_log>>

Next ==
    \/ SampleRegime
    \/ CheckForArrivals
    \/ ProcessRecoveries
    \/ Combine
    \/ DevOps
    \/ SalesOps
    \/ Update
    \/ ReturnRaises
    \/ Return

Spec == Init /\ [][Next]_vars

\* ---- SimulationEngine and the /simulate handler --------------------------
\* largest n_simulations of a request
MaxPaths == 3
\* largest seed a request carries
MaxSeed == 2
\* largest value of int(time.time() * 1000) % (2**31) when run is called
MaxClock == 2
\* longest risk event list of a request
MaxEvents == 2

\* RiskEventInput of the request schema: each severity field in [0, 2], no
\* order between the three
RiskEventInputs ==
    { [name |-> "event", intensity |-> 12000, impact_type |-> "revenue",
       severity_min |-> t[1], severity_mode |-> t[2], severity_max |-> t[3],
       recovery_rate |-> 3000, start_month |-> 1, end_month |-> None] :
         t \in { <<5000, 5000, 5000>>, <<10000, 5000, 15000>> } }

\* TriangularDistribution.__init__ raises ValueError
TriangularRaises(min_val, mode, max_val) == min_val > mode \/ mode > max_val

\* _create_risk_configs raises: a severity distribution cannot be built
create_risk_configs_raises(evs) ==
    \E i \in 1..Len(evs) :
        TriangularRaises(evs[i].severity_min, evs[i].severity_mode, evs[i].severity_max)

\* the distribution specs of a request (params is an unconstrained dict):
\* valid ones; contract_small fixed to 0; leads_per_month fixed to -1.0; a
\* triangular contract_small with min > mode
InputSpecs ==
    { ValidSpecs,
      [ValidSpecs EXCEPT !.contract_small = FixedValue(0)],
      [ValidSpecs EXCEPT !.leads_per_month = FixedValue(-Scale)],
      [ValidSpecs EXCEPT !.contract_small =
          [min_val |-> avg_contract, mode |-> avg_contract \div 2, max_val |-> 2 * avg_contract]] }

\* _create_distributions raises: create_distribution builds a
\* TriangularDistribution from each spec
create_distributions_raises(specs) ==
    \E name \in DOMAIN specs :
        TriangularRaises(specs[name].min_val, specs[name].mode, specs[name].max_val)

\* _run_single_path raises ValueError after run has handed it its seed: the
\* sampled contract_small is the mean of LogNormalDistribution.from_mean_cv
\* (mean <= 0 raises), the sampled leads_per_month is the base_rate of the
\* PoissonProcess simulate builds (base_rate < 0 raises)
run_single_path_raises(specs) ==
    \/ \E mean \in TriangularSample(specs.contract_small) : mean <= 0
    \/ \E base_rate \in TriangularSample(specs.leads_per_month) : base_rate < 0

\* _create_risk_configs: one RiskEventConfig per event of the request
create_risk_configs(evs) ==
    [i \in 1..Len(evs) |->
        [name |-> evs[i].name, intensity |-> evs[i].intensity,
         impact_type |-> evs[i].impact_type,
         severity_dist |-> [min_val |-> evs[i].severity_min, mode |-> evs[i].severity_mode,
                            max_val |-> evs[i].severity_max],
         recovery_rate |-> evs[i].recovery_rate,
         start_month |-> evs[i].start_month, end_month |-> evs[i].end_month]]

\* int(s.generate_state(1)[0]) of child i of SeedSequence(base).spawn(n): a
\* function of the entropy and the child's spawn key (i counted from 0)
SubSeed(base, i) == [entropy |-> base, spawn_key |-> i - 1]

\* _run_single_path(seed): every draw of the path comes from
\* Generator(PCG64(seed)), so the PathResult is a function of the seed and of
\* what the simulator is built from; configs is the risk manager's event list
\* (empty: no risk manager)
run_single_path(seed, configs) == [rng |-> seed, risk_manager |-> configs]

\* the requests: seed absent or 0..MaxSeed, risk events enabled or not
EngineInit ==
    /\ config_seed \in {None} \cup { Some(sd) : sd \in 0..MaxSeed }
    /\ n_simulations \in 1..MaxPaths
    /\ n_jobs \in {1, -1}
    /\ enable_risk_events \in BOOLEAN
    /\ risk_events \in SeqUpTo(RiskEventInputs, MaxEvents)
    /\ input_specs \in InputSpecs
    /\ risk_configs = << >>
    /\ epc = "request"
    /\ base_seed = None
    /\ seeds = << >>
    /\ results = << >>
    /\ raised = None
    /\ meta_seed = None
    /\ response_seed = None
    /\ NotAnalysed
    /\ NoManager
    /\ NoTasks
    /\ SimulateEntry(CHOOSE inp \in PathInputs : TRUE, FALSE, << >>)

\* everything of one simulated path: no step of the handler touches it
path_vars == <<initial_capital, dev_duration, dev_burn, bumn_ratio, regime_model, risk_manager,
               events, series_vars, regime_vars, risk_vars, ops_vars, state, pc, month,
               combined_multipliers, is_ruin, result, deal_log>>

\* SimulationEngine.__init__: the distributions are built, then the risk
\* configs, whether or not risk events are enabled; an exception ends the
\* handler (HTTP 500)
Construct ==
    /\ epc = "request"
    /\ IF create_distributions_raises(input_specs) \/ create_risk_configs_raises(risk_events)
       THEN /\ raised' = Some("ValueError")
            /\ epc' = "failed"
            /\ UNCHANGED risk_configs
       ELSE /\ risk_configs' = create_risk_configs(risk_events)
            /\ epc' = "constructed"
            /\ UNCHANGED raised
    /\ UNCHANGED <<config_seed, n_simulations, n_jobs, enable_risk_events, risk_events,
                   input_specs,
                   base_seed, seeds, results, meta_seed, response_seed, path_vars, analytics_vars,
                   rng_vars, task_vars>>

\* run, up to the list of sub-seeds: `seed or clock`, then spawn
DrawSeeds ==
    /\ epc = "constructed"
    /\ \E clock \in 0..MaxClock :
         LET base == IF Truthy(config_seed) THEN config_seed[1] ELSE clock
         IN /\ base_seed' = Some(base)
            /\ seeds' = [i \in 1..n_simulations |-> SubSeed(base, i)]
    /\ results' = [i \in 1..n_simulations |-> None]
    /\ epc' = "running"
    /\ UNCHANGED <<config_seed, n_simulations, n_jobs, enable_risk_events, risk_events,
                   input_specs,
                   risk_configs, raised, meta_seed, response_seed, path_vars, analytics_vars,
                   rng_vars, task_vars>>

\* the paths run may start next: the first one not back in the list
\* comprehension, any one not back under joblib
Runnable ==
    LET waiting == { i \in 1..n_simulations : results[i] = None }
    IN IF n_jobs = 1 THEN { i \in waiting : \A j \in waiting : i <= j } ELSE waiting

\* one _run_single_path(seeds[i]) call; its result goes to slot i of the list
RunPath ==
    /\ epc = "running"
    /\ ~run_single_path_raises(input_specs)
    /\ \E i \in Runnable :
         results' = [results EXCEPT ![i] = Some(run_single_path(seeds[i],
                        IF enable_risk_events THEN risk_configs ELSE << >>))]
    /\ UNCHANGED <<config_seed, n_simulations, n_jobs, enable_risk_events, risk_events,
                   input_specs,
                   risk_configs, epc, base_seed, seeds, raised, meta_seed, response_seed,
                   path_vars, analytics_vars,
                   rng_vars, task_vars>>

\* one _run_single_path(seeds[i]) call raises: run passes the exception on
\* and the handler ends (HTTP 500)
RunPathRaises ==
    /\ epc = "running"
    /\ run_single_path_raises(input_specs)
    /\ Runnable # {}
    /\ raised' = Some("ValueError")
    /\ epc' = "failed"
    /\ UNCHANGED <<config_seed, n_simulations, n_jobs, enable_risk_events, risk_events,
                   input_specs, risk_configs, base_seed, seeds, results, meta_seed,
                   response_seed, path_vars, analytics_vars, rng_vars, task_vars>>

\* run returns the list
ReturnResults ==
    /\ epc = "running"
    /\ \A i \in 1..n_simulations : results[i] # None
    /\ epc' = "ran"
    /\ UNCHANGED <<config_seed, n_simulations, n_jobs, enable_risk_events, risk_events,
                   input_specs,
                   risk_configs, base_seed, seeds, results, raised, meta_seed, response_seed,
                   path_vars, analytics_vars,
                   rng_vars, task_vars>>

\* aggregate_results: the meta block
Aggregate ==
    /\ epc = "ran"
    /\ meta_seed' = config_seed
    /\ epc' = "aggregated"
    /\ UNCHANGED <<config_seed, n_simulations, n_jobs, enable_risk_events, risk_events,
                   input_specs,
                   risk_configs, base_seed, seeds, results, raised, response_seed, path_vars, analytics_vars,
                   rng_vars, task_vars>>

\* run_simulation builds the response: the meta block
Respond ==
    /\ epc = "aggregated"
    /\ response_seed' = config_seed
    /\ epc' = "responded"
    /\ UNCHANGED <<config_seed, n_simulations, n_jobs, enable_risk_events, risk_events,
                   input_specs,
                   risk_configs, base_seed, seeds, results, raised, meta_seed, path_vars, analytics_vars,
                   rng_vars, task_vars>>

EngineNext ==
    \/ Construct
    \/ DrawSeeds
    \/ RunPath
    \/ RunPathRaises
    \/ ReturnResults
    \/ Aggregate
    \/ Respond

EngineSpec == EngineInit /\ [][EngineNext]_vars

\* run has returned its list
RunReturned == epc \in {"ran", "aggregated", "responded"}

\* C11: for every supplied base seed, 0 included, path i runs on the i-th
\* sub-seed derived from that seed and its result is at index i of the list
\* run returns, so the list is a function of the request alone: the same for
\* every clock reading, for every order in which the workers finish, and for
\* n_jobs = 1 as for the parallel mode.
C11_SuppliedSeedDeterminesResults ==
    (config_seed # None /\ RunReturned) =>
        /\ seeds = [i \in 1..n_simulations |-> SubSeed(config_seed[1], i)]
        /\ results = [i \in 1..n_simulations |->
                         Some(run_single_path(SubSeed(config_seed[1], i),
                              IF enable_risk_events THEN risk_configs ELSE << >>))]

\* C12: when the request carries no seed, the seed run drew from the wall
\* clock is the seed reported in meta.seed, in the engine's result and in the
\* handler's response.
C12_DrawnSeedReported ==
    (config_seed = None /\ epc = "responded") =>
        /\ base_seed # None
        /\ meta_seed = base_seed
        /\ response_seed = base_seed

\* C13: a request with enable_risk_events = false ends as the same request
\* with an empty risk event list: it raises iff that one does, and run returns
\* the path results of a simulator built without risk events on the same
\* sub-seeds.
C13_DisabledIsEmptyList ==
    ~enable_risk_events =>
        /\ raised # None =>
              \/ create_distributions_raises(input_specs)
              \/ create_risk_configs_raises(<< >>)
              \/ run_single_path_raises(input_specs)
        /\ RunReturned =>
              results = [i \in 1..n_simulations |->
                            Some(run_single_path(seeds[i], create_risk_configs(<< >>)))]

\* C22: every constructor failure of a run is raised while the engine is
\* constructed, before run has derived a seed or started a path: once run has
\* started, no constructor validation error occurs.
C22_ConstructorErrorsBeforeRun ==
    raised # None =>
        /\ base_seed = None
        /\ seeds = << >>
        /\ results = << >>

\* ---- the analytics on a list of path results -----------------------------
\* largest list of path results handed to the analytics
MaxCorpus == 2

\* the list run returned
path_results == [i \in 1..Len(results) |-> results[i][1]]

\* np.sum over a boolean mask: the number of true entries
CountTrue(flags) == Cardinality({ i \in DOMAIN flags : flags[i] })

\* np.mean(mask) of a boolean mask with count true entries among n
Fraction(count, n) == (count * Scale) \div n

\* np.percentile(values, q), linear interpolation, in hundredths
Percentile(values, q) ==
    LET sorted == SortSeq(values, LAMBDA a, b : a < b)
        pos == (Len(values) - 1) * q
        lo == 1 + pos \div 100
        hi == Min(lo + 1, Len(values))
    IN 100 * sorted[lo] + (pos % 100) * (sorted[hi] - sorted[lo])

\* Len(values)^2 times np.var(values): 0 iff np.std(values) is 0
ScaledVariance(values) ==
    Len(values) * SumSeq([i \in 1..Len(values) |-> values[i] * values[i]])
        - SumSeq(values) * SumSeq(values)

\* the rule with prob_ruin <= 0.05 for prob_ruin < 0.05
RecommendationRuinAtMost(prob_profit, return_mean, prob_ruin) ==
    IF prob_profit >= 8000 /\ return_mean >= 50 /\ prob_ruin <= 500 THEN "PROCEED"
    ELSE IF prob_profit >= 6000 THEN "CAUTION"
    ELSE IF prob_profit >= 4000 THEN "REASSESS"
    ELSE "DO_NOT_PROCEED"

\* the recommendation rule of aggregate_results; probabilities in 1/Scale,
\* return_mean in percent
Recommendation(prob_profit, return_mean, prob_ruin) ==
    IF prob_profit >= 8000 /\ return_mean >= 50 /\ prob_ruin < 500 THEN "PROCEED"
    ELSE IF prob_profit >= 6000 THEN "CAUTION"
    ELSE IF prob_profit >= 4000 THEN "REASSESS"
    ELSE "DO_NOT_PROCEED"

\* the survival curve: the fraction of paths with equity > 0 at each month
SurvivalCurve(paths) ==
    [t \in 0..time_horizon |->
        Fraction(CountTrue([i \in 1..Len(paths) |-> paths[i].equity_curve[t] > 0]), Len(paths))]

\* total_return > 0 and total_return <= 0 of a path with initial capital > 0,
\* on the unrounded return (the PathResult of the model keeps it rounded
\* down to whole percent)
return_positive(r) == r.final_capital > r.initial_capital

\* floor(total_return / 50) and ceil(total_return / 50) on the unrounded
\* return 100 * (final - initial) / initial
floor_bucket(r) == ((r.final_capital - r.initial_capital) * 2) \div r.initial_capital
ceil_bucket(r) == -(((r.initial_capital - r.final_capital) * 2) \div r.initial_capital)

\* the least and the greatest of a non-empty list of integers
MinOf(values) == CHOOSE v \in { values[i] : i \in DOMAIN values } :
                    \A i \in DOMAIN values : v <= values[i]
MaxOf(values) == CHOOSE v \in { values[i] : i \in DOMAIN values } :
                    \A i \in DOMAIN values : v >= values[i]

bucket_size == 50

\* the return histogram: one bucket [start, start + 50) for every start of
\* range(min_ret, max_ret, bucket_size)
return_buckets(paths) ==
    LET min_ret == MinOf([i \in 1..Len(paths) |-> floor_bucket(paths[i])]) * bucket_size
        max_ret == MaxOf([i \in 1..Len(paths) |-> ceil_bucket(paths[i])]) * bucket_size
    IN [b \in 1..((max_ret - min_ret) \div bucket_size) |->
          LET start == min_ret + (b - 1) * bucket_size
          IN [range_start |-> start,
              range_end |-> start + bucket_size,
              count |-> CountTrue([i \in 1..Len(paths) |->
                            /\ paths[i].total_return >= start
                            /\ paths[i].total_return < start + bucket_size])]]

\* the loss mask without the ruin test
loss_mask_any(positive, ruin) == ~positive
\* (returns <= 0) & ~is_ruin
loss_mask(positive, ruin) == ~positive /\ ~ruin

\* the outcome distribution: double_plus, profitable, loss, ruin, total
outcomes(paths) ==
    [double_plus |-> CountTrue([i \in 1..Len(paths) |-> paths[i].total_return >= 100]),
     profitable |-> CountTrue([i \in 1..Len(paths) |->
                        return_positive(paths[i]) /\ paths[i].total_return < 100]),
     loss |-> CountTrue([i \in 1..Len(paths) |->
                  loss_mask(return_positive(paths[i]), paths[i].is_ruin)]),
     ruin |-> CountTrue([i \in 1..Len(paths) |-> paths[i].is_ruin]),
     total |-> Len(paths)]

\* SimulationEngine.aggregate_results; np.vstack raises on an empty list
aggregate_results(paths) ==
    IF paths = << >> THEN [raised |-> "ValueError"]
    ELSE LET n_sims == Len(paths)
             returns == [i \in 1..n_sims |-> paths[i].total_return]
             n_profit == CountTrue([i \in 1..Len(paths) |-> return_positive(paths[i])])
             n_ruin == CountTrue([i \in 1..Len(paths) |-> paths[i].is_ruin])
             n_below == CountTrue([i \in 1..Len(paths) |-> paths[i].total_return < -20])
             prob_profit == Fraction(n_profit, n_sims)
             prob_ruin == Fraction(n_ruin, n_sims)
             return_mean == SumSeq(returns) \div n_sims
         IN [raised |-> "",
             summary |->
                [prob_profit |-> prob_profit, prob_ruin |-> prob_ruin,
                 return_mean |-> return_mean,
                 return_variance |-> ScaledVariance(returns),
                 return_p5 |-> Percentile(returns, 5),
                 return_p95 |-> Percentile(returns, 95),
                 recommendation |-> Recommendation(prob_profit, return_mean, prob_ruin)],
             percentiles |->
                [t \in 0..time_horizon |->
                    LET month_values == [i \in 1..n_sims |-> paths[i].equity_curve[t]]
                    IN [p5 |-> Percentile(month_values, 5),
                        p50 |-> Percentile(month_values, 50),
                        p95 |-> Percentile(month_values, 95)]],
             outcomes |-> outcomes(paths),
             return_buckets |-> return_buckets(paths),
             survival_curve |-> SurvivalCurve(paths),
             premortem |->
                [failure_rate |-> prob_ruin + Fraction(n_below, n_sims),
                 failure_count |-> n_ruin + n_below],
             n_simulations |-> n_sims]

\* h(t) = [S(t-1) - S(t)] / S(t-1), 0 at t = 0 and where S(t-1) is 0
HazardRates(survival_curve) ==
    [t \in 0..time_horizon |->
        IF t > 0 /\ survival_curve[t - 1] > 0
        THEN ((survival_curve[t - 1] - survival_curve[t]) * Scale) \div survival_curve[t - 1]
        ELSE 0]

\* RiskAnalyzer(paths).analyze(): the survival block; _extract_arrays raises
\* on an empty list (np.vstack)
risk_analyze(paths) ==
    IF paths = << >> THEN [raised |-> "ValueError"]
    ELSE [raised |-> "",
          survival_curve |-> SurvivalCurve(paths),
          hazard_rates |-> HazardRates(SurvivalCurve(paths)),
          terminal_survival_rate |-> SurvivalCurve(paths)[time_horizon]]

\* SensitivityAnalyzer(paths, 'return').analyze() on paths that share their
\* realized parameters: no parameter varies, so no correlation and no tornado
\* item is computed; pearsonr raises on an empty list, and
\* compute_variance_contributions stacks the varying inputs (np.column_stack
\* of none raises) when the returns vary
sensitivity_analyze(paths) ==
    IF paths = << >> THEN [raised |-> "ValueError"]
    ELSE IF ScaledVariance([i \in 1..Len(paths) |-> paths[i].total_return]) > 0
    THEN [raised |-> "ValueError"]
    ELSE [raised |-> "", tornado |-> << >>, correlations |-> << >>, total_r2 |-> 0]

\* _classify_paths: failure is ruin or a return at or below the threshold
is_failed(r, failure_threshold) == r.is_ruin \/ r.total_return <= failure_threshold

\* PremortemAnalyzer(paths, failure_threshold).analyze(): the failure counts;
\* on an empty list _classify_paths raises (the empty is_ruin array is a
\* float array, and | is not defined on it)
premortem_analyze(paths, failure_threshold) ==
    IF paths = << >> THEN [raised |-> "TypeError"]
    ELSE LET n_failed == CountTrue([i \in 1..Len(paths) |-> is_failed(paths[i], failure_threshold)])
         IN [raised |-> "",
             n_failed |-> n_failed,
             n_success |-> Len(paths) - n_failed,
             failure_rate |-> Fraction(n_failed, Len(paths)),
             failure_count |-> n_failed]

\* the requests whose paths are collected: all distributions fixed, no
\* regime switching; one risk event of severity 1.0; a capital gone after
\* two months without a customer; a capital down to 80 percent after three
\* months without a customer
CorpusScenarios ==
    { [inp |-> [initial_capital |-> 400, dev_duration |-> 0, dev_burn |-> 400, bumn_ratio |-> 0],
       evs |-> <<WithSeverity(EventConfig("revenue"), Scale)>>],
      [inp |-> [initial_capital |-> 200, dev_duration |-> 0, dev_burn |-> 400, bumn_ratio |-> 0],
       evs |-> << >>],
      [inp |-> [initial_capital |-> 1500, dev_duration |-> 0, dev_burn |-> 400, bumn_ratio |-> 0],
       evs |-> << >>] }

\* run in serial mode on one of the scenarios, or the analytics handed an
\* empty list
CorpusInit ==
    /\ config_seed = None
    /\ n_simulations \in 0..MaxCorpus
    /\ n_jobs = 1
    /\ \E sc \in CorpusScenarios :
         /\ SimulateEntry(sc.inp, FALSE, sc.evs)
         /\ risk_configs = sc.evs
    /\ enable_risk_events = (risk_configs # << >>)
    /\ risk_events = << >>
    /\ input_specs = ValidSpecs
    /\ epc = IF n_simulations > 0 THEN "running" ELSE "ran"
    /\ base_seed = None
    /\ seeds = << >>
    /\ results = << >>
    /\ raised = None
    /\ meta_seed = None
    /\ response_seed = None
    /\ NotAnalysed
    /\ NoManager
    /\ NoTasks

\* one step of the path _run_single_path is simulating
SimulateStep == epc = "running" /\ Next

\* _run_single_path returns: the PathResult joins the list, and the next path
\* starts on a new simulator, business state and risk manager
CollectPath ==
    /\ epc = "running"
    /\ pc = "done"
    /\ results' = Append(results, result)
    /\ epc' = IF Len(results') = n_simulations THEN "ran" ELSE "running"
    /\ active_shocks' = << >>
    /\ state' = NewBusinessState(initial_capital)
    /\ equity_curve' = [k \in 0..time_horizon |-> IF k = 0 THEN initial_capital ELSE 0]
    /\ monthly_pnl' = [k \in 0..(time_horizon - 1) |-> 0]
    /\ customer_series' = [k \in 0..time_horizon |-> 0]
    /\ regime_path' = << >>
    /\ current_regime' = NORMAL
    /\ months_in_stress' = 0
    /\ shock_timeline' = << >>
    /\ total_shocks' = 0
    /\ regime_multipliers' = EmptyDict
    /\ risk_multipliers' = OneMultipliers
    /\ combined_multipliers' = EmptyDict
    /\ effective_lead_rate' = 0
    /\ n_leads' = None
    /\ effective_churn' = 0
    /\ revenue' = 0
    /\ costs' = 0
    /\ new_customers' = 0
    /\ churned' = 0
    /\ is_ruin' = FALSE
    /\ result' = None
    /\ deal_log' = << >>
    /\ month' = 0
    /\ pc' = IF time_horizon > 0 THEN "regime" ELSE "return"
    /\ UNCHANGED <<initial_capital, dev_duration, dev_burn, bumn_ratio, regime_model,
                   risk_manager, events, config_seed, n_simulations, n_jobs,
                   enable_risk_events, risk_events, input_specs, risk_configs, base_seed, seeds, raised,
                   meta_seed, response_seed, analytics_vars, rng_vars, task_vars>>

AggregateResults ==
    /\ epc = "ran"
    /\ basic_result = None
    /\ basic_result' = Some(aggregate_results(path_results))
    /\ UNCHANGED <<path_vars, engine_vars, rng_vars, task_vars, risk_result, sensitivity_result, premortem_result>>

RiskAnalyze ==
    /\ epc = "ran"
    /\ risk_result = None
    /\ risk_result' = Some(risk_analyze(path_results))
    /\ UNCHANGED <<path_vars, engine_vars, rng_vars, task_vars, basic_result, sensitivity_result, premortem_result>>

SensitivityAnalyze ==
    /\ epc = "ran"
    /\ sensitivity_result = None
    /\ sensitivity_result' = Some(sensitivity_analyze(path_results))
    /\ UNCHANGED <<path_vars, engine_vars, rng_vars, task_vars, basic_result, risk_result, premortem_result>>

PremortemAnalyze ==
    /\ epc = "ran"
    /\ premortem_result = None
    /\ premortem_result' = Some(premortem_analyze(path_results, -20))
    /\ UNCHANGED <<path_vars, engine_vars, rng_vars, task_vars, basic_result, risk_result, sensitivity_result>>

CorpusNext ==
    \/ SimulateStep
    \/ CollectPath
    \/ AggregateResults
    \/ RiskAnalyze
    \/ SensitivityAnalyze
    \/ PremortemAnalyze

CorpusSpec == CorpusInit /\ [][CorpusNext]_vars

\* ---- the tasks of a parallel run ------------------------------------------
\* most tasks of one run
MaxTasks == 3

\* the k-th value (k from 0) of Generator(PCG64(seed)), cut to one bit: a
\* function of the seed and of the position in the stream
Stream(seed, k) == ((seed.entropy + 1) * (seed.spawn_key + 1) + k) % 2

\* check_for_arrivals on the generator of seed at position k: the new shocks
\* of the events from the i-th on, and the position after the draws (one
\* Poisson draw per event inside its window, the bit being the count)
RECURSIVE task_arrivals(_, _, _, _, _)
task_arrivals(evs, i, seed, k, m) ==
    IF i > Len(evs) THEN [new_shocks |-> << >>, draws |-> k]
    ELSE IF ~EventActive(evs[i], m) THEN task_arrivals(evs, i + 1, seed, k, m)
    ELSE LET n_arrivals == Stream(seed, k)
             rest == task_arrivals(evs, i + 1, seed, k + 1, m)
         IN [new_shocks |->
                ShocksOf(evs[i], [j \in 1..n_arrivals |-> evs[i].severity_dist.mode], m)
                    \o rest.new_shocks,
             draws |-> rest.draws]

\* process_recoveries on the generator of seed at position k: one draw per
\* active shock, the bit 1 being a value below the recovery rate
task_recoveries(shocks, seed, k) ==
    [active_shocks |->
        Remaining(shocks, [j \in 1..Len(shocks) |-> Stream(seed, k + j - 1) = 1], 1),
     draws |-> k + Len(shocks)]

\* the heap with the object obj at address id
Alloc(heap, id, obj) ==
    IF id > Len(heap) THEN Append(heap, obj) ELSE [heap EXCEPT ![id] = obj]

\* one RiskEventManager made once and handed to every path
shared_manager(heap) == 1
\* RiskEventManager(self.risk_configs) in _run_single_path: a new object
new_manager(heap) == Len(heap) + 1

\* the task of path i before _run_single_path has run
NewTask ==
    [pc |-> "new", month |-> 0, manager |-> None, draws |-> 0,
     shock_timeline |-> << >>, risk_multipliers |-> << >>]

\* a parallel run at the point where joblib has its tasks: one per sub-seed
ParallelInit ==
    /\ config_seed = None
    /\ n_simulations \in 1..MaxTasks
    /\ n_jobs = -1
    /\ enable_risk_events \in BOOLEAN
    /\ risk_events = << >>
    /\ input_specs = ValidSpecs
    /\ risk_configs \in { <<EventConfig("adoption")>>, <<EventConfig("churn")>> }
    /\ epc = "running"
    /\ \E clock \in 0..MaxClock :
         /\ base_seed = Some(clock)
         /\ seeds = [i \in 1..n_simulations |-> SubSeed(clock, i)]
    /\ results = [i \in 1..n_simulations |-> None]
    /\ raised = None
    /\ meta_seed = None
    /\ response_seed = None
    /\ NotAnalysed
    /\ NoManager
    /\ tasks = [i \in 1..n_simulations |-> NewTask]
    /\ managers = << >>
    /\ SimulateEntry(CHOOSE inp \in PathInputs : TRUE, FALSE, << >>)

\* _run_single_path up to the month loop of simulate: the task makes its risk
\* manager (if risk events are enabled and configured) and resets it
StartTask(i) ==
    /\ tasks[i].pc = "new"
    /\ LET has_manager == enable_risk_events /\ risk_configs # << >>
           id == new_manager(managers)
       IN /\ managers' = IF has_manager
                         THEN Alloc(managers, id,
                                    [events |-> risk_configs, active_shocks |-> << >>])
                         ELSE managers
          /\ tasks' = [tasks EXCEPT ![i].pc = "arrivals",
                                    ![i].manager = IF has_manager THEN Some(id) ELSE None]
    /\ UNCHANGED <<path_vars, engine_vars, analytics_vars, rng_vars>>

\* step 2 of the month, first half, in task i
TaskArrivals(i) ==
    /\ tasks[i].pc = "arrivals"
    /\ IF tasks[i].manager = None
       THEN /\ tasks' = [tasks EXCEPT ![i].pc = "recoveries"]
            /\ UNCHANGED managers
       ELSE LET id == tasks[i].manager[1]
                a == task_arrivals(managers[id].events, 1, seeds[i], tasks[i].draws,
                                   tasks[i].month)
            IN /\ managers' = [managers EXCEPT ![id].active_shocks = @ \o a.new_shocks]
               /\ tasks' = [tasks EXCEPT
                     ![i].pc = "recoveries",
                     ![i].draws = a.draws,
                     ![i].shock_timeline = @ \o
                         [j \in 1..Len(a.new_shocks) |->
                             <<tasks[i].month, a.new_shocks[j].impact_type,
                               a.new_shocks[j].severity>>]]
    /\ UNCHANGED <<path_vars, engine_vars, analytics_vars, rng_vars>>

\* step 2 of the month, second half, in task i, and the end of the month
TaskRecoveries(i) ==
    /\ tasks[i].pc = "recoveries"
    /\ LET next_pc == IF tasks[i].month + 1 >= time_horizon THEN "return" ELSE "arrivals"
       IN IF tasks[i].manager = None
          THEN /\ tasks' = [tasks EXCEPT
                     ![i].pc = next_pc,
                     ![i].month = @ + 1,
                     ![i].risk_multipliers = Append(@, OneMultipliers)]
               /\ UNCHANGED managers
          ELSE LET id == tasks[i].manager[1]
                   r == task_recoveries(managers[id].active_shocks, seeds[i], tasks[i].draws)
               IN /\ managers' = [managers EXCEPT ![id].active_shocks = r.active_shocks]
                  /\ tasks' = [tasks EXCEPT
                        ![i].pc = next_pc,
                        ![i].month = @ + 1,
                        ![i].draws = r.draws,
                        ![i].risk_multipliers = Append(@, get_multipliers(r.active_shocks))]
    /\ UNCHANGED <<path_vars, engine_vars, analytics_vars, rng_vars>>

\* task i returns: what the risk manager gave the path goes to slot i
ReturnTask(i) ==
    /\ tasks[i].pc = "return"
    /\ tasks' = [tasks EXCEPT ![i].pc = "done"]
    /\ results' = [results EXCEPT ![i] =
           Some([shock_timeline |-> tasks[i].shock_timeline,
                 risk_multipliers |-> tasks[i].risk_multipliers])]
    /\ UNCHANGED <<path_vars, config_seed, n_simulations, n_jobs, enable_risk_events,
                   risk_events, input_specs, risk_configs, epc, base_seed, seeds, raised,
                   meta_seed, response_seed, analytics_vars, rng_vars, managers>>

ParallelNext ==
    \E i \in 1..n_simulations :
        \/ StartTask(i)
        \/ TaskArrivals(i)
        \/ TaskRecoveries(i)
        \/ ReturnTask(i)

ParallelSpec == ParallelInit /\ [][ParallelNext]_vars

\* what the risk manager gives a path run alone on this seed, from month m
\* on, the generator being at position k
RECURSIVE AloneFrom(_, _, _, _, _, _, _)
AloneFrom(evs, seed, m, k, shocks, timeline, mults) ==
    IF m >= time_horizon THEN [shock_timeline |-> timeline, risk_multipliers |-> mults]
    ELSE LET a == task_arrivals(evs, 1, seed, k, m)
             r == task_recoveries(shocks \o a.new_shocks, seed, a.draws)
         IN AloneFrom(evs, seed, m + 1, r.draws, r.active_shocks,
                      timeline \o [j \in 1..Len(a.new_shocks) |->
                                      <<m, a.new_shocks[j].impact_type,
                                        a.new_shocks[j].severity>>],
                      Append(mults, get_multipliers(r.active_shocks)))

Alone(seed) ==
    IF enable_risk_events /\ risk_configs # << >>
    THEN AloneFrom(risk_configs, seed, 0, 0, << >>, << >>, << >>)
    ELSE [shock_timeline |-> << >>,
          risk_multipliers |-> [m \in 1..time_horizon |-> OneMultipliers]]

\* the tasks own their risk managers, and a returned task got what it gets
\* when it runs alone
TasksApart ==
    /\ \A i, j \in 1..n_simulations :
          (i # j /\ tasks[i].manager # None) => tasks[i].manager # tasks[j].manager
    /\ \A id \in 1..Len(managers) : managers[id].events = risk_configs
    /\ \A i \in 1..n_simulations : results[i] # None => results[i][1] = Alone(seeds[i])

MaxSpawn == 2
\* most spawn_generators calls on one manager
MaxCalls == 3
\* most values drawn from manager.rng
MaxDraws == 2

\* RNGManager(seed): the seed sequence of the seed, none of its children
\* spawned, and the primary generator at the start of its stream
RNGManager(seed) == [base_seed |-> seed, n_children_spawned |-> 0, draws |-> 0]

\* SeedSequence.spawn(n): the next n children of the sequence, numbered on
\* from the children it has spawned before
spawn(manager, n) ==
    [k \in 1..n |->
        [entropy |-> manager.base_seed, spawn_key |-> manager.n_children_spawned + k - 1]]

RngInit ==
    /\ EngineIdle
    /\ NotAnalysed
    /\ NoTasks
    /\ \E seed \in 0..MaxSeed : rng_manager = Some(RNGManager(seed))
    /\ spawned = << >>
    /\ SimulateEntry(CHOOSE inp \in PathInputs : TRUE, FALSE, << >>)

\* manager.spawn_generators(n): the generators of the next n children; the
\* seed sequence counts them
SpawnGenerators ==
    /\ Len(spawned) < MaxCalls
    /\ \E n \in 1..MaxSpawn :
         /\ spawned' = Append(spawned, [n |-> n, generators |-> spawn(rng_manager[1], n)])
         /\ rng_manager' = Some([rng_manager[1] EXCEPT !.n_children_spawned = @ + n])
    /\ UNCHANGED <<path_vars, engine_vars, analytics_vars, task_vars>>

\* manager.rng.random(): the primary generator moves one value on
DrawRng ==
    /\ rng_manager[1].draws < MaxDraws
    /\ rng_manager' = Some([rng_manager[1] EXCEPT !.draws = @ + 1])
    /\ UNCHANGED <<path_vars, engine_vars, analytics_vars, task_vars, spawned>>

\* manager.reset(): a new seed sequence and a new primary generator of the
\* base seed
ResetManager ==
    /\ rng_manager # Some(RNGManager(rng_manager[1].base_seed))
    /\ rng_manager' = Some(RNGManager(rng_manager[1].base_seed))
    /\ UNCHANGED <<path_vars, engine_vars, analytics_vars, task_vars, spawned>>

RngNext ==
    \/ SpawnGenerators
    \/ DrawRng
    \/ ResetManager

RngSpec == RngInit /\ [][RngNext]_vars

\* C25: spawn_generators(n) on a manager of base seed s is a function of
\* (s, n): every call returns the generators a fresh manager of the same
\* seed returns for the same n, and a spawn leaves the parent unchanged, the
\* position of manager.rng and the result of any later spawn being what they
\* were before it.
C25_SpawnIsFunctionOfSeedAndCount ==
    /\ [](\A c \in 1..Len(spawned) :
            spawned[c].generators = spawn(RNGManager(rng_manager[1].base_seed), spawned[c].n))
    /\ [][Len(spawned') > Len(spawned) =>
            /\ rng_manager'[1].draws = rng_manager[1].draws
            /\ \A n \in 1..MaxSpawn : spawn(rng_manager'[1], n) = spawn(rng_manager[1], n)
         ]_vars

\* ---- the recommendation rule on its own ----------------------------------
\* the summaries the rule is applied to: probabilities at, just below and
\* just above the thresholds of the rule, mean returns around 50 percent. A
\* ruined path is not profitable, and the mean return is positive only if
\* some path is profitable
Summaries ==
    { sm \in [prob_profit : {0, 3999, 4000, 4001, 5999, 6000, 6001, 7999, 8000, 8001, Scale},
              return_mean : {-100, 0, 49, 50, 51},
              prob_ruin : {0, 499, 500, 501, 2000, Scale}] :
        /\ sm.prob_profit + sm.prob_ruin <= Scale
        /\ sm.return_mean > 0 => sm.prob_profit > 0
        /\ sm.prob_ruin = Scale => sm.return_mean <= -100 }

\* aggregate_results is at its recommendation rule
SummaryInit ==
    /\ EngineIdle
    /\ NotAnalysed
    /\ NoManager
    /\ NoTasks
    /\ SimulateEntry(CHOOSE inp \in PathInputs : TRUE, FALSE, << >>)

\* the rule is applied to the summary statistics
Recommend ==
    /\ basic_result = None
    /\ \E sm \in Summaries :
         basic_result' = Some(
            [raised |-> "",
             summary |-> [prob_profit |-> sm.prob_profit, return_mean |-> sm.return_mean,
                          prob_ruin |-> sm.prob_ruin,
                          recommendation |->
                             Recommendation(sm.prob_profit, sm.return_mean, sm.prob_ruin)]])
    /\ UNCHANGED <<path_vars, engine_vars, rng_vars, task_vars, risk_result, sensitivity_result, premortem_result>>

SummarySpec == SummaryInit /\ [][Recommend]_vars

\* ---- analyze_timing on its own --------------------------------------------
\* longest failure-month histogram, and most failures in one of its months
MaxHistogram == 6
MaxPerMonth == 2

window_size == 3

\* the histograms analyze_timing builds: month m of the histogram is entry
\* m + 1; its length is the largest failure month plus one, so the last
\* entry counts at least one failure
Histograms ==
    { h \in SeqUpTo(0..MaxPerMonth, MaxHistogram) : h # << >> /\ h[Len(h)] > 0 }

\* sum(histogram[i:i+window_size])
window_failures(histogram, i) ==
    SumSeq([k \in 1..(Min(i + window_size, Len(histogram)) - i) |-> histogram[i + k]])

\* window_rate > avg_rate * 1.5, that is window_failures / 3 > 1.5 *
\* total_failures / max_month, without the divisions
window_qualifies(histogram, i) ==
    2 * window_failures(histogram, i) * Len(histogram) > 9 * SumSeq(histogram)

\* the while loop of analyze_timing from index i on, cumulative failures
\* having been reported so far
RECURSIVE critical_periods(_, _, _)
critical_periods(histogram, i, cumulative) ==
    IF ~(i < Len(histogram) - window_size) THEN << >>
    ELSE IF window_qualifies(histogram, i)
    THEN LET reported == cumulative + window_failures(histogram, i)
         IN << [start_month |-> i, end_month |-> i + window_size - 1,
                cumulative_failures |-> Fraction(reported, SumSeq(histogram))] >>
            \o critical_periods(histogram, i + window_size, reported)
    ELSE critical_periods(histogram, i + 1, cumulative)

\* analyze_timing of n_failed > 0 failed paths with this histogram: the
\* critical periods (start, end and cumulative failure fraction) and the
\* histogram
analyze_timing(histogram) ==
    [raised |-> "", histogram |-> histogram,
     critical_periods |-> critical_periods(histogram, 0, 0)]

TimingInit ==
    /\ EngineIdle
    /\ NotAnalysed
    /\ NoManager
    /\ NoTasks
    /\ SimulateEntry(CHOOSE inp \in PathInputs : TRUE, FALSE, << >>)

\* analyze_timing is called on the failure months of some failed paths
AnalyzeTiming ==
    /\ premortem_result = None
    /\ \E h \in Histograms : premortem_result' = Some(analyze_timing(h))
    /\ UNCHANGED <<path_vars, engine_vars, rng_vars, task_vars, basic_result, risk_result,
                   sensitivity_result>>

TimingSpec == TimingInit /\ [][AnalyzeTiming]_vars

\* the window of three histogram months starting at month w exceeds 1.5
\* times the mean failure rate per month
WindowExceeds(histogram, w) ==
    2 * (histogram[w + 1] + histogram[w + 2] + histogram[w + 3]) * Len(histogram)
        > 9 * SumSeq(histogram)

\* C23: every window of 3 consecutive histogram months (the last one
\* included) whose per-month failure rate exceeds 1.5 times the mean rate is
\* reported as a critical period or overlaps a reported one; the reported
\* periods are pairwise disjoint and ordered by start month; the cumulative
\* failure fraction is non-decreasing and at most 1.
C23_EveryHotWindowCovered ==
    premortem_result # None =>
        LET h == premortem_result[1].histogram
            ps == premortem_result[1].critical_periods
        IN /\ \A w \in 0..(Len(h) - window_size) :
                 WindowExceeds(h, w) =>
                    \E k \in 1..Len(ps) :
                        ps[k].start_month <= w + window_size - 1 /\ w <= ps[k].end_month
           /\ \A k \in 1..(Len(ps) - 1) : ps[k].end_month < ps[k + 1].start_month
           /\ \A k \in 1..(Len(ps) - 1) :
                 ps[k].cumulative_failures <= ps[k + 1].cumulative_failures
           /\ \A k \in 1..Len(ps) : ps[k].cumulative_failures \in 0..Scale

\* C17: the summary is mapped to exactly one recommendation by the ordered
\* rule: PROCEED iff prob_profit >= 0.80, return_mean >= 50 and prob_ruin <
\* 0.05; otherwise CAUTION iff prob_profit >= 0.60; otherwise REASSESS iff
\* prob_profit >= 0.40; otherwise DO_NOT_PROCEED. PROCEED is never returned
\* when prob_ruin >= 0.05.
C17_RecommendationRule ==
    (basic_result # None /\ basic_result[1].raised = "") =>
        LET sm == basic_result[1].summary
            proceed == sm.prob_profit >= 8000 /\ sm.return_mean >= 50 /\ sm.prob_ruin < 500
        IN /\ sm.recommendation \in {"PROCEED", "CAUTION", "REASSESS", "DO_NOT_PROCEED"}
           /\ (sm.recommendation = "PROCEED") = proceed
           /\ (sm.recommendation = "CAUTION") = (~proceed /\ sm.prob_profit >= 6000)
           /\ (sm.recommendation = "REASSESS") =
                 (~proceed /\ sm.prob_profit < 6000 /\ sm.prob_profit >= 4000)
           /\ (sm.recommendation = "DO_NOT_PROCEED") = (~proceed /\ sm.prob_profit < 4000)
           /\ sm.prob_ruin >= 500 => sm.recommendation # "PROCEED"

\* a summary with prob_profit >= 0.80 and return_mean >= 50 whose prob_ruin
\* is exactly 0.05 got CAUTION
C17_Witness ==
    /\ basic_result # None
    /\ basic_result[1].raised = ""
    /\ basic_result[1].summary.prob_profit = 8000
    /\ basic_result[1].summary.return_mean = 50
    /\ basic_result[1].summary.prob_ruin = 500
    /\ basic_result[1].summary.recommendation = "CAUTION"

\* C18: in every list of paths simulate returned for an initial capital > 0,
\* a path whose equity is <= 0 at some month has equity <= 0 at every later
\* month, so the survival curve S(t), the fraction of paths with equity(t) >
\* 0, is non-increasing over 0..H (in the risk analysis and in the engine's
\* risk metrics) and every hazard rate lies in [0, 1].
C18_SurvivalNonIncreasing ==
    /\ \A i \in 1..Len(path_results) :
          /\ path_results[i].initial_capital > 0
          /\ \A t \in 0..(time_horizon - 1) :
                path_results[i].equity_curve[t] <= 0 => path_results[i].equity_curve[t + 1] <= 0
    /\ (risk_result # None /\ risk_result[1].raised = "") =>
          /\ \A t \in 1..time_horizon :
                risk_result[1].survival_curve[t] <= risk_result[1].survival_curve[t - 1]
          /\ \A t \in 0..time_horizon :
                /\ risk_result[1].survival_curve[t] \in 0..Scale
                /\ risk_result[1].hazard_rates[t] \in 0..Scale
    /\ (basic_result # None /\ basic_result[1].raised = "") =>
          \A t \in 1..time_horizon :
              basic_result[1].survival_curve[t] <= basic_result[1].survival_curve[t - 1]

\* the risk analysis of two paths, one ruined in its second month and one
\* that survived: the survival curve drops to one half, with hazard one half
C18_Witness ==
    /\ risk_result # None
    /\ risk_result[1].raised = ""
    /\ Len(path_results) = 2
    /\ risk_result[1].survival_curve[1] = Scale
    /\ risk_result[1].survival_curve[2] = 5000
    /\ risk_result[1].hazard_rates[2] = 5000
    /\ risk_result[1].terminal_survival_rate = 5000

\* the paths of the list that are ruined or have a return <= -20 percent
FailedPaths ==
    { i \in 1..Len(path_results) :
        path_results[i].is_ruin \/ path_results[i].total_return <= -20 }

\* C19: for a non-empty list of paths, the failed paths are those ruined or
\* with a return <= -20, each counted once: the reported failure_count is
\* their number, failed + successful = N and failure_rate lies in [0, 1], in
\* the premortem analysis and in the premortem block of aggregate_results.
C19_FailureCounts ==
    (epc = "ran" /\ results # << >>) =>
        /\ premortem_result # None =>
              /\ premortem_result[1].raised = ""
              /\ premortem_result[1].failure_count = Cardinality(FailedPaths)
              /\ premortem_result[1].n_failed + premortem_result[1].n_success
                    = Len(path_results)
              /\ premortem_result[1].failure_rate \in 0..Scale
        /\ basic_result # None =>
              /\ basic_result[1].raised = ""
              /\ basic_result[1].premortem.failure_count = Cardinality(FailedPaths)
              /\ basic_result[1].premortem.failure_rate \in 0..Scale

\* C20: on a list of zero paths, none of the analytics (aggregate_results,
\* RiskAnalyzer, SensitivityAnalyzer, PremortemAnalyzer construction and
\* analyze) raises an exception.
C20_EmptyCorpusNoException ==
    (epc = "ran" /\ results = << >>) =>
        /\ basic_result # None => basic_result[1].raised = ""
        /\ risk_result # None => risk_result[1].raised = ""
        /\ sensitivity_result # None => sensitivity_result[1].raised = ""
        /\ premortem_result # None => premortem_result[1].raised = ""

\* C27: the return histogram covers every path: its 50-point buckets span
\* from floor(min/50)*50 to ceil(max/50)*50, every path's return falls in
\* exactly one bucket and the bucket counts sum to N, also when the minimum
\* or maximum return is a multiple of 50 and when all returns are equal.
C27_HistogramCoversEveryPath ==
    (basic_result # None /\ basic_result[1].raised = "") =>
        LET buckets == basic_result[1].return_buckets
            InBucket(i, b) == /\ path_results[i].total_return >= buckets[b].range_start
                              /\ path_results[i].total_return < buckets[b].range_end
        IN /\ \A i \in 1..Len(path_results) :
                 Cardinality({ b \in 1..Len(buckets) : InBucket(i, b) }) = 1
           /\ SumSeq([b \in 1..Len(buckets) |-> buckets[b].count]) = Len(path_results)
           /\ \A b \in 1..Len(buckets) :
                 /\ buckets[b].range_end = buckets[b].range_start + bucket_size
                 /\ b > 1 => buckets[b].range_start = buckets[b - 1].range_end

\* C28: for paths with initial capital > 0 the four outcome buckets
\* partition the list: every path is in exactly one of double_plus (return >=
\* 100), profitable (0 < return < 100), loss (return <= 0, not ruined) and
\* ruin; their counts sum to total = N, ruin / N = prob_ruin and (double_plus
\* + profitable) / N = prob_profit.
C28_OutcomesPartition ==
    (basic_result # None /\ basic_result[1].raised = "") =>
        LET oc == basic_result[1].outcomes
            n == Len(path_results)
            Kinds(r) == { k \in {"double_plus", "profitable", "loss", "ruin"} :
                            \/ k = "double_plus" /\ r.total_return >= 100
                            \/ k = "profitable" /\ r.final_capital > r.initial_capital
                                                /\ r.total_return < 100
                            \/ k = "loss" /\ r.final_capital <= r.initial_capital /\ ~r.is_ruin
                            \/ k = "ruin" /\ r.is_ruin }
            Of(k) == Cardinality({ i \in 1..n : k \in Kinds(path_results[i]) })
        IN /\ \A i \in 1..n : /\ path_results[i].initial_capital > 0
                               /\ Cardinality(Kinds(path_results[i])) = 1
           /\ oc.double_plus = Of("double_plus")
           /\ oc.profitable = Of("profitable")
           /\ oc.loss = Of("loss")
           /\ oc.ruin = Of("ruin")
           /\ oc.double_plus + oc.profitable + oc.loss + oc.ruin = oc.total
           /\ oc.total = n
           /\ Fraction(oc.ruin, n) = basic_result[1].summary.prob_ruin
           /\ Fraction(oc.double_plus + oc.profitable, n) = basic_result[1].summary.prob_profit

\* two paths were aggregated, one ruined and one that more than doubled
C28_Witness ==
    /\ basic_result # None
    /\ basic_result[1].raised = ""
    /\ basic_result[1].outcomes.ruin = 1
    /\ basic_result[1].outcomes.double_plus = 1
    /\ basic_result[1].outcomes.total = 2

\* every input distribution is fixed, regime switching is disabled and the
\* only risk event has its severity fixed to 1.0
ZeroVarianceScenario ==
    /\ ~regime_model
    /\ events = <<WithSeverity(EventConfig("revenue"), Scale)>>

\* C14: in the zero-variance scenario all paths of a run have the same
\* equity curve and the same total return, so the summary has prob_profit 0
\* or 1 and return_std 0, and p5 = p95 at every month.
C14_ZeroVariancePathsEqual ==
    (ZeroVarianceScenario /\ epc = "ran" /\ results # << >>) =>
        /\ \A i, j \in 1..Len(path_results) :
              /\ path_results[i].equity_curve = path_results[j].equity_curve
              /\ path_results[i].total_return = path_results[j].total_return
        /\ basic_result # None =>
              /\ basic_result[1].summary.prob_profit \in {0, Scale}
              /\ basic_result[1].summary.return_variance = 0
              /\ \A t \in 0..time_horizon :
                    basic_result[1].percentiles[t].p5 = basic_result[1].percentiles[t].p95

\* ---- properties ----------------------------------------------------------
\* months whose capital update is done
Recorded == Len(state.monthly_revenues)

\* the multiplier table of the regime in force (all 1.0 without a regime model)
RegimeInForce == IF regime_model THEN RegimeToDict(current_regime) ELSE RegimeToDict(NORMAL)

SalesMonthDone == pc = "update" /\ ~is_dev_phase(month, dev_duration)

\* C1: in a month with a risk manager the order is arrivals, operations,
\* recoveries: the step that follows check_for_arrivals hands the operations
\* the per-channel products of the severities of the shocks active right after
\* the arrivals, and no shock is removed or attenuated before the operations.
C1_ArrivalsOperationsRecoveries ==
    [][pc = "recoveries" =>
          /\ risk_multipliers' = get_multipliers(active_shocks)
          /\ active_shocks' = active_shocks]_vars

\* C2: in an operating month the revenue is customers * (avg_annual_contract
\* / 12) * combined.revenue, combined.revenue being the regime's revenue
\* multiplier times the product of the active revenue shocks' severities.
C2_RevenueScaledByCombined ==
    SalesMonthDone =>
        revenue = Mul(state.customers * (avg_contract \div 12),
                      Mul(RegimeInForce.revenue_multiplier,
                          get_multipliers(active_shocks).revenue))

\* C3: in every month the cost is scaled by combined.cost, the regime's cost
\* multiplier times the product of the active cost shocks' severities:
\* dev_burn * combined.cost in development, (op_overhead + customers *
\* cost_per_customer) * combined.cost otherwise.
C3_CostScaledByCombined ==
    pc = "update" =>
        LET combined_cost == Mul(RegimeInForce.cost_multiplier,
                                 get_multipliers(active_shocks).cost)
        IN costs = IF is_dev_phase(month, dev_duration)
                   THEN Mul(dev_burn, combined_cost)
                   ELSE Mul(op_overhead + state.customers * cost_per_customer, combined_cost)

\* C4: in an operating month the leads are drawn from Poisson(leads_per_month
\* * combined.adoption), combined.adoption being the regime's lead multiplier
\* times the product of the active adoption shocks' severities.
C4_LeadRateScaledByRegime ==
    SalesMonthDone =>
        effective_lead_rate =
            Mul(leads_per_month, Mul(RegimeInForce.lead_multiplier,
                                     get_multipliers(active_shocks).adoption))

\* C5: after process_pipeline_closings(state, month) the pipeline holds no
\* deal with close_month <= month.
C5_NoDealPastCloseMonth ==
    SalesMonthDone =>
        \A i \in 1..Len(state.pipeline) : state.pipeline[i].close_month > month

\* C8: every returned path has an equity curve of length H+1, a monthly P&L
\* of length H, a customer series of length H+1 and a regime path of length
\* H, ruined early or not.
C8_SeriesLengths ==
    pc = "done" =>
        /\ Cardinality(DOMAIN result[1].equity_curve) = time_horizon + 1
        /\ Cardinality(DOMAIN result[1].monthly_pnl) = time_horizon
        /\ Cardinality(DOMAIN result[1].customer_series) = time_horizon + 1
        /\ Len(result[1].regime_path) = time_horizon

\* the last month whose closing step has run
ClosedThrough == IF pc \in {"update", "return", "done", "raised"} THEN month ELSE month - 1

\* customers counted from the pipeline so far, and customers churned so far
TotalCounted == SumSeq([i \in 1..Len(deal_log) |-> Len(deal_log[i].counted)])
TotalChurned == SumSeq(state.monthly_churned) + (IF pc = "update" THEN churned ELSE 0)

InPipeline(ident) == \E j \in 1..Len(state.pipeline) : state.pipeline[j].ident = ident

\* C6: every pipeline deal changes the customer count at most once: a
\* converting deal adds exactly one customer, at the first closing step with
\* month >= close_month (its close month, never its entry month), and is then
\* removed; a non-converting deal never adds a customer; a deal in the
\* pipeline is as it was created (will_convert included); the customer count
\* is the number of deals counted minus the customers churned.
C6_DealCountedAtMostOnce ==
    /\ \A i \in 1..Len(deal_log) :
         LET d == deal_log[i].deal
             counted == deal_log[i].counted
         IN /\ d.ident = i
            /\ Len(counted) <= 1
            /\ ~d.will_convert => counted = << >>
            /\ counted # << >> =>
                 /\ counted[1] = d.close_month
                 /\ counted[1] > d.entry_month
                 /\ ~InPipeline(i)
            /\ (d.will_convert /\ d.close_month <= ClosedThrough) => counted # << >>
    /\ \A j \in 1..Len(state.pipeline) :
         /\ state.pipeline[j].ident \in 1..Len(deal_log)
         /\ deal_log[state.pipeline[j].ident].deal = state.pipeline[j]
    /\ state.customers = TotalCounted - TotalChurned

\* a converting deal was counted and a later closing step has run, while a
\* non-converting deal is past its close month
C6_Witness ==
    /\ \E i \in 1..Len(deal_log) :
         deal_log[i].counted # << >> /\ deal_log[i].counted[1] < ClosedThrough
    /\ \E i \in 1..Len(deal_log) :
         ~deal_log[i].deal.will_convert /\ deal_log[i].deal.close_month <= ClosedThrough

\* the state of a ruined path: a capital <= 0 after a capital update is ruin,
\* the loop is left, nothing of a later month is recorded, the equity curve is
\* padded with the capital at ruin and the monthly P&L with zeros
RuinState ==
    /\ (Recorded > 0 /\ state.capital <= 0) => is_ruin
    /\ is_ruin =>
         /\ pc \in {"return", "done", "raised"}
         /\ state.capital <= 0
         /\ Recorded = month + 1
         /\ Len(regime_path) = month + 1
         /\ \A k \in (month + 1)..time_horizon : equity_curve[k] = state.capital
         /\ \A k \in (month + 1)..(time_horizon - 1) : monthly_pnl[k] = 0
    /\ pc = "done" =>
         /\ result[1].is_ruin = is_ruin
         /\ result[1].equity_curve = equity_curve
         /\ result[1].monthly_pnl = monthly_pnl
         /\ result[1].final_capital = state.capital

\* C7: Ruined is absorbing: capital <= 0 after a capital update gives is_ruin,
\* the equity curve from the next entry on is the capital at ruin, the later
\* monthly P&L entries are 0, and after ruin no regime is drawn, no shock
\* arrives or recovers, no lead, closing or churn happens and the capital and
\* the series do not change.
C7_RuinAbsorbing ==
    /\ []RuinState
    /\ [][is_ruin => UNCHANGED <<state, active_shocks, shock_timeline, total_shocks,
                                 regime_path, current_regime, months_in_stress, n_leads,
                                 equity_curve, monthly_pnl, customer_series, month,
                                 is_ruin, deal_log>>]_vars

\* a path ruined in a sales month before the last month has returned
C7_Witness ==
    /\ pc = "done"
    /\ is_ruin
    /\ month >= dev_duration
    /\ month + 2 <= time_horizon

\* shock b is shock a after one partial recovery: the gap to 1.0 is 0.8 times
\* what it was, on the same side of 1.0
PartlyRecovered(a, b) ==
    /\ b = [a EXCEPT !.severity = b.severity]
    /\ (Scale - b.severity) * 10 = (Scale - a.severity) * 8
    /\ (a.severity < Scale) = (b.severity < Scale)
    /\ (a.severity > Scale) = (b.severity > Scale)
    /\ a.severity # Scale => b.severity # Scale

\* the k-th index of the set ks of indices
NthOf(ks, k) == CHOOSE i \in ks : Cardinality({ j \in ks : j < i }) = k - 1

\* C15: within a path (reset() runs at its start only) an active shock leaves
\* the active list only in process_recoveries, by a full-recovery draw its
\* recovery rate allows; every shock that stays active there has its severity
\* s replaced by s + 0.2 * (1 - s): |1 - s| shrinks by the factor 0.8, s stays
\* on its side of 1 and does not reach 1; no other step removes or changes an
\* active shock.
C15_RecoveryDrift ==
    [][ /\ pc # "recoveries" =>
             /\ Len(active_shocks') >= Len(active_shocks)
             /\ \A i \in 1..Len(active_shocks) : active_shocks'[i] = active_shocks[i]
        /\ pc = "recoveries" =>
             \E ks \in SUBSET (1..Len(active_shocks)) :
                /\ Len(active_shocks') = Cardinality(ks)
                /\ \A k \in 1..Cardinality(ks) :
                      PartlyRecovered(active_shocks[NthOf(ks, k)], active_shocks'[k])
                /\ \A i \in (1..Len(active_shocks)) \ ks : active_shocks[i].recovery_rate > 0
      ]_vars

\* a shock of severity above 1 is still active after its second partial
\* recovery
C15_Witness ==
    /\ pc = "combine"
    /\ active_shocks # << >>
    /\ month > active_shocks[1].start_month
    /\ active_shocks[1].severity > Scale
    /\ active_shocks[1].severity < 14000

\* C16: a shock arrives for an event only inside the event's activation
\* window: an arrival in the 0-based month m has start_month <= m + 1 and,
\* whenever end_month is set (to any integer), m + 1 <= end_month.
C16_ArrivalsInsideWindow ==
    \A k \in 1..Len(shock_timeline) :
        \A i \in 1..Len(events) :
            events[i].impact_type = shock_timeline[k][2] =>
                /\ events[i].start_month <= shock_timeline[k][1] + 1
                /\ events[i].end_month # None =>
                      shock_timeline[k][1] + 1 <= events[i].end_month[1]

\* C21: for every input that passed request validation (an initial capital
\* of 0 included) simulate returns a PathResult and never raises; ruin is
\* reported through is_ruin.
C21_SimulateNeverRaises ==
    /\ pc # "raised"
    /\ (pc = "done" /\ state.capital <= 0) => result[1].is_ruin

\* months whose regime step is done
RegimeSampled == IF pc = "regime" THEN month ELSE month + 1

\* the regime path, the regime in force and the stress counter
RegimeState ==
    /\ Len(regime_path) = RegimeSampled
    /\ months_in_stress = Cardinality({ k \in 1..Len(regime_path) : regime_path[k] = "stress" })
    /\ regime_model =>
          /\ regime_path = << >> => current_regime = NORMAL
          /\ regime_path # << >> =>
                /\ regime_path[Len(regime_path)] = current_regime
                /\ regime_multipliers = RegimeToDict(current_regime)
    /\ ~regime_model =>
          /\ \A k \in 1..Len(regime_path) : regime_path[k] = "normal"
          /\ current_regime = NORMAL
          /\ regime_multipliers = EmptyDict
    /\ pc = "done" =>
          /\ result[1].regime_path = regime_path
          /\ result[1].months_in_stress = months_in_stress

\* C24: with a regime model the regime of month 0 is sampled from the
\* transition row of the initial regime and the regime of each later month
\* from the row of the month before; regime_path[m] is the regime in force
\* during month m, without the initial state as an extra entry;
\* months_in_stress is the number of 'stress' entries; without a regime model
\* every entry is 'normal' and the regime stays the initial one.
C24_RegimePath ==
    /\ []RegimeState
    /\ [][(pc = "regime" =>
              /\ regime_path' = Append(regime_path,
                                       IF regime_model THEN current_regime' ELSE "normal")
              /\ regime_model =>
                    transition_matrix[get_regime_index(current_regime)]
                                     [get_regime_index(current_regime')] > 0
              /\ ~regime_model => current_regime' = current_regime)
           /\ (pc # "regime" =>
                 UNCHANGED <<regime_path, current_regime, months_in_stress>>)]_vars

\* a returned path whose month 0 ran in a regime other than the initial one,
\* with two stress months and a boom month
C24_Witness ==
    /\ pc = "done"
    /\ regime_model
    /\ Len(regime_path) = time_horizon
    /\ regime_path[1] # NORMAL
    /\ months_in_stress = 2
    /\ \E k \in 1..Len(regime_path) : regime_path[k] = BOOM

\* C29: every path result satisfies the accounting identity: equity_curve[0]
\* is the initial capital, equity_curve[m+1] = equity_curve[m] + monthly_pnl[m]
\* for every m in 0..H-1, the padded months after ruin included, and
\* final_capital = equity_curve[H].
C29_AccountingIdentity ==
    pc = "done" =>
        /\ result[1].equity_curve[0] = result[1].initial_capital
        /\ \A m \in 0..(time_horizon - 1) :
              result[1].equity_curve[m + 1] = result[1].equity_curve[m] + result[1].monthly_pnl[m]
        /\ result[1].final_capital = result[1].equity_curve[time_horizon]

\* a returned path ruined in its first month by a negative flow: the two
\* later months are padded
C29_Witness ==
    /\ pc = "done"
    /\ result[1].is_ruin
    /\ month = 0
    /\ time_horizon >= 3
    /\ result[1].monthly_pnl[0] < 0
    /\ result[1].initial_capital > 0

\* C30: for every path result with initial capital > 0: is_ruin iff
\* final_capital <= 0 iff some equity curve entry is <= 0; a path that is not
\* ruined has equity > 0 at every month 0..H, and a ruined path has
\* total_return <= -100.
C30_RuinIffEquityGone ==
    (pc = "done" /\ result[1].initial_capital > 0) =>
        /\ result[1].is_ruin = (result[1].final_capital <= 0)
        /\ result[1].is_ruin = (\E m \in 0..time_horizon : result[1].equity_curve[m] <= 0)
        /\ ~result[1].is_ruin => \A m \in 0..time_horizon : result[1].equity_curve[m] > 0
        /\ result[1].is_ruin => result[1].total_return <= -100

\* a returned path ruined in its last month, its capital exactly 0 after
\* months with equity above zero
C30_Witness ==
    /\ pc = "done"
    /\ result[1].initial_capital > 0
    /\ result[1].is_ruin
    /\ month = time_horizon - 1
    /\ result[1].equity_curve[time_horizon - 1] > 0
    /\ result[1].final_capital = 0
    /\ result[1].total_return = -100

\* the months m >= dev_duration recorded with capital >= initial capital
BreakevenMonths ==
    { m \in 0..(Recorded - 1) : m >= dev_duration /\ equity_curve[m + 1] >= initial_capital }

\* C9: breakeven_month is -1 until the first month m >= dev_duration whose
\* capital after the update is >= the initial capital, is m+1 from then on,
\* so it is -1 or in dev_duration+1..H, and -1 when every simulated month is
\* a development month; the path result carries it.
C9_BreakevenFirstOperatingMonth ==
    /\ state.breakeven_month =
          IF BreakevenMonths = {} THEN -1
          ELSE 1 + CHOOSE m \in BreakevenMonths : \A n \in BreakevenMonths : m <= n
    /\ state.breakeven_month \in {-1} \cup ((dev_duration + 1)..time_horizon)
    /\ Recorded <= dev_duration => state.breakeven_month = -1
    /\ pc = "done" => result[1].breakeven_month = state.breakeven_month

\* a returned path that broke even after its first sales month and was at or
\* above the initial capital again in a later month
C9_Witness ==
    /\ pc = "done"
    /\ state.breakeven_month > dev_duration + 1
    /\ state.breakeven_month < time_horizon
    /\ equity_curve[time_horizon] >= initial_capital

\* C10: in a development month (m < dev_duration) revenue is 0, no leads are
\* drawn, no deal enters or leaves the pipeline, no churn is applied and the
\* customer count stays 0; sales operations run in month dev_duration.
C10_NoSalesInDevelopment ==
    /\ \A m \in 0..(Recorded - 1) :
         m < dev_duration =>
            /\ state.monthly_revenues[m + 1] = 0
            /\ state.monthly_new_customers[m + 1] = 0
            /\ state.monthly_churned[m + 1] = 0
            /\ state.monthly_customers[m + 1] = 0
            /\ customer_series[m + 1] = 0
    /\ month < dev_duration =>
            /\ n_leads = None
            /\ state.pipeline = << >>
            /\ state.customers = 0
            /\ deal_log = << >>
            /\ pc = "update" => revenue = 0 /\ new_customers = 0 /\ churned = 0
    /\ \A i \in 1..Len(deal_log) : deal_log[i].deal.entry_month >= dev_duration
    /\ (pc = "update" /\ month = dev_duration) => n_leads # None

\* a returned path with a development phase whose sales months took leads
C10_Witness ==
    /\ pc = "done"
    /\ dev_duration >= 1
    /\ Recorded > dev_duration
    /\ deal_log # << >>

====
